---- MODULE Spec2Model ----
(***************************************************************************)
(* Model of the instruction decoder in src/components/instructions.rs:     *)
(* the opcode table, the dispatch sets, Operand::read, read_operands, the  *)
(* five read_*_instruction routines, Instruction::read and                 *)
(* Instruction::read_instructions, as a state machine over a byte cursor.  *)
(* The byte buffer is the input: every read draws the value found at the   *)
(* cursor from a bounded set, and the buffer may end at any read.          *)
(***************************************************************************)
EXTENDS Naturals, Integers, Sequences, FiniteSets

VARIABLES
  entry,         \* which public function was called: "read" or "read_instructions"
  pc,            \* position of the decoder in the code
  pos,           \* ByteCode cursor: number of bytes consumed so far
  tag_end,       \* cursor right after the read_u16 of the current Instruction::read
  num,           \* read_instructions: let num
  instructions,  \* read_instructions: the Vec being collected
  decoded,       \* history: the instructions returned by Instruction::read, in call order
  opcode,        \* Instruction::read: let opcode
  callee,        \* read_call_instruction: let callee
  n,             \* read_operands: parameter n
  vec,           \* read_operands: the Vec<Operand> being collected
  operands,      \* the Option<Vec<Operand>> returned by read_operands
  m,             \* number of output registers still to be read in total
  regs,          \* the output registers read so far
  result,        \* what the public function returned to its caller; <<>> until it returns
  failure,       \* "none", or the kind of fatal failure that ended the decode
  trace          \* history: the reads of the current Instruction::read, in order

vars ==
  <<entry, pc, pos, tag_end, num, instructions, decoded, opcode, callee, n, vec,
    operands, m, regs, result, failure, trace>>

(***************************************************************************)
(* Bounds on the inputs.                                                   *)
(***************************************************************************)
MaxNum == 2
MaxInputs == 2
MaxOutputs == 2

\* 16-bit opcode tags found in the buffer when Instruction::read is the entry point
ReadTags == (0..57) \cup {255, 256, 65535}
\* tags found in the buffer when read_instructions is the entry point:
\* Abs (unary), AssertEq (assert), Cast (no dispatch set), 56 (no opcode)
ProgramTags == {0, 5, 8, 56}
OperandTags == (0..4) \cup {255}
LocatorKinds == {0, 1, 2, 255}
Identifiers == {<<0>>, <<1>>}
Locators == {<<0, 0, 0>>, <<0, 1, 0>>}
Literals == {<<0>>, <<1>>}
Registers == {<<0>>, <<1>>}

(***************************************************************************)
(* Widths of the reads of the external collaborators (ByteCode, Literal,   *)
(* Register, util): each consumes a fixed number of bytes in this model.   *)
(***************************************************************************)
U8Width == 1
U16Width == 2
U32Width == 4
LiteralWidth == 1
RegisterWidth == 1
IdentifierWidth == 1
LocatorWidth == 3

(***************************************************************************)
(* Opcode: the enumeration in declaration order.                           *)
(***************************************************************************)
OpcodeEnum ==
  <<
    "Abs", "AbsWrapped", "Add", "AddWrapped",
    "And", "AssertEq", "AssertNeq", "Call",
    "Cast", "CommitBHP256", "CommitBHP512", "CommitBHP768",
    "CommitBHP1024", "CommitPED64", "CommitPED128", "Div",
    "DivWrapped", "Double", "GreaterThan", "GreaterThanOrEqual",
    "HashBHP256", "HashBHP512", "HashBHP768", "HashBHP1024",
    "HashPED64", "HashPED128", "HashPSD2", "HashPSD4",
    "HashPSD8", "Inv", "IsEq", "IsNeq",
    "LessThan", "LessThanOrEqual", "Mod", "Mul",
    "MulWrapped", "Nand", "Neg", "Nor",
    "Not", "Or", "Pow", "PowWrapped",
    "Rem", "RemWrapped", "Shl", "ShlWrapped",
    "Shr", "ShrWrapped", "Square", "SquareRoot",
    "Sub", "SubWrapped", "Ternary", "Xor"
  >>

Opcodes == {OpcodeEnum[i] : i \in 1..Len(OpcodeEnum)}

NoOpcode == "NoOpcode"
\* the value of an arm that ends in unreachable!()
Unreachable == "unreachable!"

(***************************************************************************)
(* impl From<u16> for Opcode: the match on the tag.                        *)
(***************************************************************************)
OpcodeMatch(value) ==
  CASE value = 0 -> "Abs"
    [] value = 1 -> "AbsWrapped"
    [] value = 2 -> "Add"
    [] value = 3 -> "AddWrapped"
    [] value = 4 -> "And"
    [] value = 5 -> "AssertEq"
    [] value = 6 -> "AssertNeq"
    [] value = 7 -> "Call"
    [] value = 8 -> "Cast"
    [] value = 9 -> "CommitBHP256"
    [] value = 10 -> "CommitBHP512"
    [] value = 11 -> "CommitBHP768"
    [] value = 12 -> "CommitBHP1024"
    [] value = 13 -> "CommitPED64"
    [] value = 14 -> "CommitPED128"
    [] value = 15 -> "Div"
    [] value = 16 -> "DivWrapped"
    [] value = 17 -> "Double"
    [] value = 18 -> "GreaterThan"
    [] value = 19 -> "GreaterThanOrEqual"
    [] value = 20 -> "HashBHP256"
    [] value = 21 -> "HashBHP512"
    [] value = 22 -> "HashBHP768"
    [] value = 23 -> "HashBHP1024"
    [] value = 24 -> "HashPED64"
    [] value = 25 -> "HashPED128"
    [] value = 26 -> "HashPSD2"
    [] value = 27 -> "HashPSD4"
    [] value = 28 -> "HashPSD8"
    [] value = 29 -> "Inv"
    [] value = 30 -> "IsEq"
    [] value = 31 -> "IsNeq"
    [] value = 32 -> "LessThan"
    [] value = 33 -> "LessThanOrEqual"
    [] value = 34 -> "Mod"
    [] value = 35 -> "Mul"
    [] value = 36 -> "MulWrapped"
    [] value = 37 -> "Nand"
    [] value = 38 -> "Neg"
    [] value = 39 -> "Nor"
    [] value = 40 -> "Not"
    [] value = 41 -> "Or"
    [] value = 42 -> "Pow"
    [] value = 43 -> "PowWrapped"
    [] value = 44 -> "Rem"
    [] value = 45 -> "RemWrapped"
    [] value = 46 -> "Shl"
    [] value = 47 -> "ShlWrapped"
    [] value = 48 -> "Shr"
    [] value = 49 -> "ShrWrapped"
    [] value = 50 -> "Square"
    [] value = 51 -> "SquareRoot"
    [] value = 52 -> "Sub"
    [] value = 53 -> "SubWrapped"
    [] value = 54 -> "Ternary"
    [] value = 55 -> "Xor"
    [] OTHER -> Unreachable

FromSwapped(value) ==
  IF value = 54 THEN "Xor" ELSE IF value = 55 THEN "Ternary" ELSE OpcodeMatch(value)

FromCoerce(value) ==
  IF value \in 0..55 THEN OpcodeMatch(value) ELSE "Abs"

From(value) == OpcodeMatch(value)

UNARY ==
  {
    "Abs", "AbsWrapped", "Double", "Inv",
    "Neg", "Not", "Square", "SquareRoot",
    "HashBHP256", "HashBHP512", "HashBHP768", "HashBHP1024",
    "HashPED64", "HashPED128", "HashPSD2", "HashPSD4",
    "HashPSD8"
  }

BINARY ==
  {
    "Add", "AddWrapped", "Sub", "SubWrapped",
    "Mul", "MulWrapped", "Div", "DivWrapped",
    "Rem", "RemWrapped", "Pow", "PowWrapped",
    "Shl", "ShlWrapped", "Shr", "ShrWrapped",
    "And", "Xor", "Or", "Nand",
    "Nor", "GreaterThan", "GreaterThanOrEqual", "LessThan",
    "LessThanOrEqual", "IsEq", "IsNeq", "CommitBHP256",
    "CommitBHP512", "CommitBHP768", "CommitBHP1024", "CommitPED64",
    "CommitPED128", "Mod"
  }

ASSERT_OPS == {"AssertEq", "AssertNeq"}

(***************************************************************************)
(* Instruction::read: the arm of the match that an opcode takes.  The arms *)
(* are tried in source order and the first that matches is taken.          *)
(***************************************************************************)
Arm(o) ==
  IF o = "Call" THEN "call"
  ELSE IF o = "Ternary" THEN "ternary"
  ELSE IF o \in ASSERT_OPS THEN "assert"
  ELSE IF o \in UNARY THEN "unary"
  ELSE IF o \in BINARY THEN "binary"
  ELSE Unreachable

\* the patterns of the match that accept o, whatever their order
ArmsMatching(o) ==
  {a \in {"call", "ternary", "assert", "unary", "binary"} :
     \/ a = "call" /\ o = "Call"
     \/ a = "ternary" /\ o = "Ternary"
     \/ a = "assert" /\ o \in ASSERT_OPS
     \/ a = "unary" /\ o \in UNARY
     \/ a = "binary" /\ o \in BINARY}

(***************************************************************************)
(* The fixed-shape routines: the n handed to read_operands and whether     *)
(* Register::read is called for the output.  The routine of the call arm   *)
(* reads both counts from the buffer.                                      *)
(***************************************************************************)
OperandCountBinaryOne(a) ==
  CASE a = "assert" -> 2
    [] a = "ternary" -> 3
    [] a = "unary" -> 1
    [] a = "binary" -> 1
    [] OTHER -> 0

OperandCount(a) ==
  CASE a = "assert" -> 2
    [] a = "ternary" -> 3
    [] a = "unary" -> 1
    [] a = "binary" -> 2
    [] OTHER -> 0

OutputCount(a) ==
  CASE a = "assert" -> 0
    [] a = "ternary" -> 1
    [] a = "unary" -> 1
    [] a = "binary" -> 1
    [] OTHER -> 0

(***************************************************************************)
(* Values.                                                                 *)
(***************************************************************************)
Internal(id) == [kind |-> "Internal", parts |-> id]
External(loc) == [kind |-> "External", parts |-> loc]
NoCallee == [kind |-> "NoCallee", parts |-> <<>>]

OperandLiteral(l) == [kind |-> "Literal", val |-> l]
OperandRegister(r) == [kind |-> "Register", val |-> r]
OperandProgramId(loc) == [kind |-> "ProgramId", val |-> External(loc).parts]
OperandCaller == [kind |-> "Caller", val |-> <<>>]

None == [some |-> FALSE, vec |-> <<>>]
Some(v) == [some |-> TRUE, vec |-> v]

OutputSingle(r) == [kind |-> "Single", regs |-> <<r>>]
OutputMultiple(rs) == [kind |-> "Multiple", regs |-> rs]
OutputNone == [kind |-> "None", regs |-> <<>>]

\* the struct literal: three fields, and no other
Instruction(op, ops, out) == [opcode |-> op, operands |-> ops, output |-> out]

Output(a, rs) ==
  IF a = "call" THEN OutputMultiple(rs)
  ELSE IF a = "assert" THEN OutputNone
  ELSE OutputSingle(rs[1])

(***************************************************************************)
(* Operand::read: d is the discriminant byte, p the payload that follows   *)
(* it in the buffer.  The result says whether an operand was produced, the *)
(* operand, and the number of bytes consumed.                              *)
(***************************************************************************)
PayloadsFor(d) ==
  CASE d = 0 -> Literals
    [] d = 1 -> Registers
    [] d = 2 -> Locators
    [] OTHER -> {<<>>}

Operand_readLenient(d, p) ==
  CASE d = 0 -> [ok |-> TRUE, operand |-> OperandLiteral(p), width |-> U8Width + LiteralWidth]
    [] d = 1 -> [ok |-> TRUE, operand |-> OperandRegister(p), width |-> U8Width + RegisterWidth]
    [] d = 2 -> [ok |-> TRUE, operand |-> OperandProgramId(p), width |-> U8Width + LocatorWidth]
    [] OTHER -> [ok |-> TRUE, operand |-> OperandCaller, width |-> U8Width]

Operand_read(d, p) ==
  CASE d = 0 -> [ok |-> TRUE, operand |-> OperandLiteral(p), width |-> U8Width + LiteralWidth]
    [] d = 1 -> [ok |-> TRUE, operand |-> OperandRegister(p), width |-> U8Width + RegisterWidth]
    [] d = 2 -> [ok |-> TRUE, operand |-> OperandProgramId(p), width |-> U8Width + LocatorWidth]
    [] d = 3 -> [ok |-> TRUE, operand |-> OperandCaller, width |-> U8Width]
    [] OTHER -> [ok |-> FALSE, operand |-> OperandCaller, width |-> U8Width]

(***************************************************************************)
(* read_operands: the value returned for parameter n once the n operands   *)
(* v have been collected.                                                  *)
(***************************************************************************)
read_operandsAlwaysSome(k, v) == Some(v)

read_operands(k, v) == IF k = 0 THEN None ELSE Some(v)

(***************************************************************************)
(* read_call_instruction: the locator chosen by the locator-kind byte.     *)
(***************************************************************************)
ResolveCallee(kind, id, loc) == IF kind = 1 THEN Internal(id) ELSE External(loc)

CalleeWidth(kind) == IF kind = 1 THEN IdentifierWidth ELSE LocatorWidth

(***************************************************************************)
(* Iterator::collect: the elements are pushed in the order produced.       *)
(***************************************************************************)
collectPrepend(v, x) == <<x>> \o v

collect(v, x) == Append(v, x)

(***************************************************************************)
(* unreachable!(): a panic; control leaves the decoder and never returns.  *)
(***************************************************************************)
unreachableContinue == "loop"

unreachable == "fail"

Ev(kind, val) == [kind |-> kind, val |-> val]

Tags(e) == IF e = "read" THEN ReadTags ELSE ProgramTags

(***************************************************************************)
(* Initial state: one of the two public functions is called on a fresh     *)
(* cursor.                                                                 *)
(***************************************************************************)
Init ==
  /\ entry \in {"read", "read_instructions"}
  /\ pc = entry
  /\ pos = 0
  /\ tag_end = 0
  /\ num = 0
  /\ instructions = <<>>
  /\ decoded = <<>>
  /\ opcode = NoOpcode
  /\ callee = NoCallee
  /\ n = 0
  /\ vec = <<>>
  /\ operands = None
  /\ m = 0
  /\ regs = <<>>
  /\ result = <<>>
  /\ failure = "none"
  /\ trace = <<>>

(***************************************************************************)
(* read_instructions                                                       *)
(***************************************************************************)
\* let num = bytes.read_u32();
ReadInstructions_Begin ==
  /\ pc = "read_instructions"
  /\ \E c \in 0..MaxNum : num' = c
  /\ pos' = pos + U32Width
  /\ pc' = "loop"
  /\ UNCHANGED <<entry, tag_end, instructions, decoded, opcode, callee, n, vec,
                 operands, m, regs, result, failure, trace>>

\* (0..num).map(|_| Self::read(bytes)): the next call of Self::read
ReadInstructions_Next ==
  /\ pc = "loop"
  /\ Len(instructions) < num
  /\ pc' = "read"
  /\ UNCHANGED <<entry, pos, tag_end, num, instructions, decoded, opcode, callee,
                 n, vec, operands, m, regs, result, failure, trace>>

\* (num, instructions)
ReadInstructions_Return ==
  /\ pc = "loop"
  /\ ~(Len(instructions) < num)
  /\ result' = <<num, instructions>>
  /\ pc' = "done"
  /\ UNCHANGED <<entry, pos, tag_end, num, instructions, decoded, opcode, callee,
                 n, vec, operands, m, regs, failure, trace>>

(***************************************************************************)
(* Instruction::read: read_u16, Opcode::from, and the match.               *)
(***************************************************************************)
Read_Dispatch ==
  /\ pc = "read"
  /\ \E t \in Tags(entry) :
       LET o == From(t)
           a == IF o = Unreachable THEN Unreachable ELSE Arm(o)
       IN  /\ pos' = pos + U16Width
           /\ tag_end' = pos + U16Width
           /\ trace' = <<Ev("opcode_tag", <<t>>)>>
           /\ callee' = NoCallee
           /\ vec' = <<>>
           /\ operands' = None
           /\ regs' = <<>>
           /\ IF o = Unreachable
                THEN /\ opcode' = NoOpcode
                     /\ failure' = "UnknownOpcode"
                     /\ pc' = unreachable
                     /\ n' = 0
                     /\ m' = 0
                ELSE IF a = Unreachable
                THEN /\ opcode' = o
                     /\ failure' = "InvariantViolation"
                     /\ pc' = unreachable
                     /\ n' = 0
                     /\ m' = 0
                ELSE /\ opcode' = o
                     /\ failure' = failure
                     /\ pc' = IF a = "call" THEN "call_callee" ELSE "operands"
                     /\ n' = OperandCount(a)
                     /\ m' = OutputCount(a)
  /\ UNCHANGED <<entry, num, instructions, decoded, result>>

(***************************************************************************)
(* read_call_instruction                                                   *)
(***************************************************************************)
\* let callee = match bytes.read_u8() { 1 => Internal(..), _ => External(..) };
ReadCall_Callee ==
  /\ pc = "call_callee"
  /\ \E kind \in LocatorKinds, id \in Identifiers, loc \in Locators :
       /\ callee' = ResolveCallee(kind, id, loc)
       /\ pos' = pos + U8Width + CalleeWidth(kind)
       /\ trace' = trace \o <<Ev("locator_kind", <<kind>>),
                              Ev(IF kind = 1 THEN "identifier" ELSE "locator",
                                 ResolveCallee(kind, id, loc).parts)>>
  /\ pc' = "call_num_inputs"
  /\ UNCHANGED <<entry, tag_end, num, instructions, decoded, opcode, n, vec,
                 operands, m, regs, result, failure>>

\* let num_inputs = bytes.read_u8();
ReadCall_NumInputs ==
  /\ pc = "call_num_inputs"
  /\ \E k \in 0..MaxInputs :
       /\ n' = k
       /\ trace' = Append(trace, Ev("input_count", <<k>>))
  /\ pos' = pos + U8Width
  /\ vec' = <<>>
  /\ pc' = "operands"
  /\ UNCHANGED <<entry, tag_end, num, instructions, decoded, opcode, callee,
                 operands, m, regs, result, failure>>

\* let num_outputs = bytes.read_u8();
ReadCall_NumOutputs ==
  /\ pc = "call_num_outputs"
  /\ \E k \in 0..MaxOutputs :
       /\ m' = k
       /\ trace' = Append(trace, Ev("output_count", <<k>>))
  /\ pos' = pos + U8Width
  /\ regs' = <<>>
  /\ pc' = "outputs"
  /\ UNCHANGED <<entry, tag_end, num, instructions, decoded, opcode, callee, n,
                 vec, operands, result, failure>>

(***************************************************************************)
(* read_operands                                                           *)
(***************************************************************************)
\* (0..n).map(|_| Operand::read(bytes)): the next call of Operand::read
Operand_Read ==
  /\ pc = "operands"
  /\ Len(vec) < n
  /\ \E d \in OperandTags :
       \E p \in PayloadsFor(d) :
         LET r == Operand_read(d, p)
         IN  /\ trace' = Append(trace, Ev("operand", <<d, r>>))
             /\ pos' = pos + r.width
             /\ IF r.ok
                  THEN /\ vec' = collect(vec, r.operand)
                       /\ UNCHANGED <<pc, failure>>
                  ELSE /\ failure' = "UnknownOperandTag"
                       /\ pc' = unreachable
                       /\ UNCHANGED vec
  /\ UNCHANGED <<entry, tag_end, num, instructions, decoded, opcode, callee, n,
                 operands, m, regs, result>>

\* read_operands returns to the routine that called it
ReadOperands_Return ==
  /\ pc = "operands"
  /\ ~(Len(vec) < n)
  /\ operands' = read_operands(n, vec)
  /\ pc' = IF Arm(opcode) = "call" THEN "call_num_outputs" ELSE "outputs"
  /\ UNCHANGED <<entry, pos, tag_end, num, instructions, decoded, opcode, callee,
                 n, vec, m, regs, result, failure, trace>>

(***************************************************************************)
(* The output: Register::read, once for Single, num_outputs times for      *)
(* Multiple, never for None.                                               *)
(***************************************************************************)
Register_Read ==
  /\ pc = "outputs"
  /\ Len(regs) < m
  /\ \E r \in Registers :
       /\ regs' = collect(regs, r)
       /\ trace' = Append(trace, Ev("register", r))
  /\ pos' = pos + RegisterWidth
  /\ UNCHANGED <<entry, pc, tag_end, num, instructions, decoded, opcode, callee,
                 n, vec, operands, m, result, failure>>

\* Self { opcode, operands, output } is built and returned by Instruction::read
Read_Return ==
  /\ pc = "outputs"
  /\ ~(Len(regs) < m)
  /\ LET instr == Instruction(opcode, operands, Output(Arm(opcode), regs))
     IN  /\ decoded' = Append(decoded, instr)
         /\ IF entry = "read"
              THEN /\ result' = <<instr>>
                   /\ pc' = "done"
                   /\ UNCHANGED instructions
              ELSE /\ instructions' = collect(instructions, instr)
                   /\ pc' = "loop"
                   /\ UNCHANGED result
  /\ UNCHANGED <<entry, pos, tag_end, num, opcode, callee, n, vec, operands, m,
                 regs, failure, trace>>

(***************************************************************************)
(* The buffer ends before the read at the cursor completes.                *)
(***************************************************************************)
ReadPending ==
  \/ pc \in {"read_instructions", "read", "call_callee", "call_num_inputs",
             "call_num_outputs"}
  \/ pc = "operands" /\ Len(vec) < n
  \/ pc = "outputs" /\ Len(regs) < m

\* bytes of a two-part read that were consumed before the buffer ended
PartialReads == IF pc \in {"call_callee", "operands"} THEN {0, U8Width} ELSE {0}

Truncated ==
  /\ ReadPending
  /\ failure' = "TruncatedInput"
  /\ pc' = "fail"
  /\ \E adv \in PartialReads : pos' = pos + adv
  /\ UNCHANGED <<entry, tag_end, num, instructions, decoded, opcode, callee, n,
                 vec, operands, m, regs, result, trace>>

Next ==
  \/ ReadInstructions_Begin
  \/ ReadInstructions_Next
  \/ ReadInstructions_Return
  \/ Read_Dispatch
  \/ ReadCall_Callee
  \/ ReadCall_NumInputs
  \/ ReadCall_NumOutputs
  \/ Operand_Read
  \/ ReadOperands_Return
  \/ Register_Read
  \/ Read_Return
  \/ Truncated

Spec == Init /\ [][Next]_vars

(***************************************************************************)
(* Vocabulary of the properties.                                           *)
(***************************************************************************)
\* the tag read by the current (or last) call of Instruction::read
TagRead == trace # <<>>
CurTag == trace[1].val[1]

Kinds(tr) == [i \in 1..Len(tr) |-> tr[i].kind]
Repeat(x, k) == [i \in 1..k |-> x]

\* Instruction::read has just returned Last, and trace holds its reads
ReturnedNow == decoded # <<>> /\ pc \in {"loop", "done"} /\ failure = "none"
Last == decoded[Len(decoded)]

\* bytes consumed by one read of the trace, from the byte-stream grammar
EvWidth(e) ==
  CASE e.kind = "opcode_tag" -> 2
    [] e.kind = "locator_kind" -> 1
    [] e.kind = "identifier" -> 1
    [] e.kind = "locator" -> 3
    [] e.kind = "input_count" -> 1
    [] e.kind = "output_count" -> 1
    [] e.kind = "register" -> 1
    [] e.kind = "operand" ->
         (CASE e.val[1] = 0 -> 2
            [] e.val[1] = 1 -> 2
            [] e.val[1] = 2 -> 4
            [] OTHER -> 1)

RECURSIVE SumWidths(_)
SumWidths(tr) == IF tr = <<>> THEN 0 ELSE EvWidth(Head(tr)) + SumWidths(Tail(tr))

OperandEvents == {i \in 1..Len(trace) : trace[i].kind = "operand"}

(***************************************************************************)
(* C1: every opcode is accepted by exactly one arm of the match in         *)
(* Instruction::read, so whenever an opcode has been decoded exactly one   *)
(* dispatch pattern matches it and the fall-through unreachable arm is not *)
(* taken.                                                                  *)
(***************************************************************************)
C1_ExactlyOneArm ==
  opcode # NoOpcode =>
    /\ Cardinality(ArmsMatching(opcode)) = 1
    /\ failure # "InvariantViolation"

(***************************************************************************)
(* C2: right after the tag t is read and resolved, if t is in 0..55 then   *)
(* the opcode bound is Opcode::from(t), which is the opcode declared at    *)
(* position t of the enumeration, no other tag in 0..55 gives that opcode, *)
(* and every opcode is given by some tag in 0..55.                         *)
(***************************************************************************)
C2_FromIsDeclarationOrder ==
  (Len(trace) = 1 /\ CurTag \in 0..55) =>
    /\ Len(OpcodeEnum) = 56
    /\ opcode = OpcodeEnum[CurTag + 1]
    /\ From(CurTag) = OpcodeEnum[CurTag + 1]
    /\ \A t \in 0..55 : From(t) = From(CurTag) => t = CurTag
    /\ \A o \in Opcodes : \E t \in 0..55 : From(t) = o

C2_Witness ==
  /\ TagRead
  /\ CurTag = 55
  /\ opcode = "Xor"

(***************************************************************************)
(* C3: an instruction returned for a non-Call opcode carries the opcode of *)
(* the tag; its reads were the tag, then k operands, then one register     *)
(* (none for AssertEq/AssertNeq), with k = 1 for UNARY, 2 for BINARY and   *)
(* the asserts, 3 for Ternary; its operands are the operands read, in read *)
(* order, and its output is Single of the register read (None for the      *)
(* asserts).                                                               *)
(***************************************************************************)
C3_FixedShapes ==
  (ReturnedNow /\ Last.opcode # "Call") =>
    LET o == Last.opcode
        k == IF o \in UNARY THEN 1
             ELSE IF o \in BINARY \cup ASSERT_OPS THEN 2
             ELSE 3
        hasReg == o \notin ASSERT_OPS
    IN  /\ o \in UNARY \cup BINARY \cup ASSERT_OPS \cup {"Ternary"}
        /\ o = From(CurTag)
        /\ Kinds(trace) = <<"opcode_tag">> \o Repeat("operand", k)
                            \o (IF hasReg THEN <<"register">> ELSE <<>>)
        /\ Last.operands.some
        /\ Last.operands.vec = [i \in 1..k |-> trace[1 + i].val[2].operand]
        /\ Last.output = IF hasReg THEN OutputSingle(trace[k + 2].val) ELSE OutputNone
        /\ pos = tag_end - 2 + SumWidths(trace)

C3_Witness ==
  /\ ReturnedNow
  /\ entry = "read"
  /\ Last.opcode = "Add"
  /\ Last.operands.vec = <<OperandLiteral(<<1>>), OperandRegister(<<0>>)>>
  /\ Last.output = OutputSingle(<<1>>)

(***************************************************************************)
(* C4: a returned Call instruction was decoded by reading, after the tag,  *)
(* the locator-kind byte, the callee payload, the input count k, k         *)
(* operands, the output count m and m registers, in this order; it has     *)
(* opcode Call, the k operands in read order and output Multiple of the m  *)
(* registers in read order.                                                *)
(***************************************************************************)
C4_CallLayout ==
  (ReturnedNow /\ Last.opcode = "Call") =>
    /\ Len(trace) >= 5
    /\ trace[4].kind = "input_count"
    /\ LET k == trace[4].val[1]
       IN  /\ Len(trace) >= 5 + k
           /\ trace[5 + k].kind = "output_count"
           /\ LET mm == trace[5 + k].val[1]
              IN  /\ Len(trace) = 5 + k + mm
                  /\ Kinds(trace) =
                       <<"opcode_tag", "locator_kind", trace[3].kind, "input_count">>
                         \o Repeat("operand", k) \o <<"output_count">>
                         \o Repeat("register", mm)
                  /\ trace[3].kind \in {"identifier", "locator"}
                  /\ CurTag = 7
                  /\ Len(Last.operands.vec) = k
                  /\ Last.operands.vec = [i \in 1..k |-> trace[4 + i].val[2].operand]
                  /\ Last.output = OutputMultiple([i \in 1..mm |-> trace[5 + k + i].val])
                  /\ pos = tag_end - 2 + SumWidths(trace)

C4_Witness ==
  /\ ReturnedNow
  /\ Last.opcode = "Call"
  /\ Last.operands.vec = <<OperandCaller, OperandLiteral(<<0>>)>>
  /\ Last.output = OutputMultiple(<<<<1>>, <<0>>>>)

(***************************************************************************)
(* C5: a returned Call instruction carries the locator resolved from the   *)
(* locator-kind byte (1: Internal of the identifier read, anything else:   *)
(* External of the three-part locator read).                               *)
(***************************************************************************)
C5_CallCarriesCallee ==
  (ReturnedNow /\ Last.opcode = "Call") =>
    /\ callee = (IF trace[2].val[1] = 1 THEN Internal(trace[3].val)
                                       ELSE External(trace[3].val))
    /\ "callee" \in DOMAIN Last
    /\ Last.callee = callee

(***************************************************************************)
(* C6: every call of Operand::read reads one discriminant byte d; d = 0    *)
(* gives a Literal after the literal payload, d = 1 a Register after the   *)
(* register payload, d = 2 a ProgramId holding the three-part locator      *)
(* read, d = 3 Caller with no further byte; any other d is fatal: it is    *)
(* the last read, no operand is produced and nothing is returned.          *)
(***************************************************************************)
C6_OperandRead ==
  /\ \A i \in OperandEvents :
       LET d == trace[i].val[1]
           r == trace[i].val[2]
       IN  /\ d = 0 => r.ok /\ r.operand.kind = "Literal" /\ r.operand.val \in Literals
                        /\ r.width = 2
           /\ d = 1 => r.ok /\ r.operand.kind = "Register" /\ r.operand.val \in Registers
                        /\ r.width = 2
           /\ d = 2 => r.ok /\ r.operand.kind = "ProgramId" /\ r.operand.val \in Locators
                        /\ r.width = 4
           /\ d = 3 => r.ok /\ r.operand = OperandCaller /\ r.width = 1
           /\ d \notin 0..3 =>
                /\ ~r.ok
                /\ r.width = 1
                /\ i = Len(trace)
                /\ failure = "UnknownOperandTag"
                /\ pc = "fail"
                /\ result = <<>>
  /\ Cardinality({i \in OperandEvents : trace[i].val[2].ok}) = Len(vec)
  /\ (TagRead /\ failure # "TruncatedInput") => pos = tag_end - 2 + SumWidths(trace)

C6_Witness ==
  /\ Len(trace) = 3
  /\ trace[2].kind = "operand" /\ trace[2].val[1] = 3
  /\ trace[3].kind = "operand" /\ trace[3].val[1] = 255
  /\ vec = <<OperandCaller>>
  /\ failure = "UnknownOperandTag"

(***************************************************************************)
(* C7: when read_instructions returns (c, seq), c is the count read first, *)
(* seq has c elements, and seq is the instructions returned by             *)
(* Instruction::read in call order; for c = 0 seq is empty and exactly 4   *)
(* bytes have been consumed.                                               *)
(***************************************************************************)
C7_CountAndSequence ==
  (entry = "read_instructions" /\ result # <<>>) =>
    /\ Len(result) = 2
    /\ result[1] = num
    /\ Len(result[2]) = result[1]
    /\ result[2] = decoded
    /\ failure = "none"
    /\ result[1] = 0 => (result[2] = <<>> /\ pos = 4)

C7_Witness ==
  /\ entry = "read_instructions"
  /\ Len(result) = 2
  /\ result[1] = 2
  /\ result[2][1].opcode = "Abs"
  /\ result[2][2].opcode = "AssertEq"

(***************************************************************************)
(* C8: when the tag read by Instruction::read is outside 0..55, the decode *)
(* fails with the unknown-opcode failure, no opcode and no instruction is  *)
(* produced, nothing is returned, and the cursor is where the read of the  *)
(* tag left it.                                                            *)
(***************************************************************************)
C8_UnknownOpcode ==
  (TagRead /\ CurTag \notin 0..55) =>
    /\ failure = "UnknownOpcode"
    /\ pc = "fail"
    /\ opcode = NoOpcode
    /\ result = <<>>
    /\ Len(trace) = 1
    /\ Len(decoded) = Len(instructions)
    /\ pos = tag_end
    /\ entry = "read" => pos = 2

C8_Witness ==
  /\ entry = "read"
  /\ TagRead
  /\ CurTag = 56
  /\ failure = "UnknownOpcode"
  /\ pos = 2

(***************************************************************************)
(* C9: once a decode has failed, nothing is ever returned, and no further  *)
(* read, instruction or result follows the failure.                        *)
(***************************************************************************)
C9_AllOrNothing ==
  /\ [](failure # "none" => (result = <<>> /\ pc = "fail"))
  /\ [][failure # "none" =>
          (pos' = pos /\ decoded' = decoded /\ instructions' = instructions
           /\ result' = result /\ trace' = trace)]_vars

C9_Witness ==
  /\ entry = "read_instructions"
  /\ num = 2
  /\ Len(decoded) = 1
  /\ failure = "InvariantViolation"
  /\ result = <<>>

(***************************************************************************)
(* C10 as stated: read_operands returns the absent marker only for n = 0,  *)
(* and no instruction returned by Instruction::read has absent operands.   *)
(***************************************************************************)
C10_NoAbsentOperands ==
  /\ pc \in {"call_num_outputs", "outputs"} => (~operands.some => n = 0)
  /\ \A i \in 1..Len(decoded) : decoded[i].operands.some

(***************************************************************************)
(* C10 amended: read_operands returns the absent marker exactly for n = 0; *)
(* a returned instruction has absent operands exactly when it is a Call    *)
(* whose input count byte is 0; every other returned instruction has at    *)
(* least one operand.                                                      *)
(***************************************************************************)
C10_AbsentOnlyForEmptyCall ==
  /\ pc \in {"call_num_outputs", "outputs"} => (operands.some <=> n # 0)
  /\ \A i \in 1..Len(decoded) :
       /\ ~decoded[i].operands.some => decoded[i].opcode = "Call"
       /\ decoded[i].operands.some <=> decoded[i].operands.vec # <<>>
  /\ ReturnedNow =>
       (~Last.operands.some <=>
          (Last.opcode = "Call" /\ Len(trace) >= 4 /\ trace[4] = Ev("input_count", <<0>>)))

C10_Witness ==
  /\ ReturnedNow
  /\ Last.opcode = "Call"
  /\ Last.operands = None
  /\ trace[4] = Ev("input_count", <<0>>)

====
